---- MODULE Spec2Model ----
(***************************************************************************)
(* Capture session controller of the MobileCapture React component.        *)
(*                                                                         *)
(* The component's useState cells are the state variables.  A handler that *)
(* runs from a click closes over the values of the render it was created   *)
(* in: the values an async handler read at the click stay with it across   *)
(* its awaits (the records in starts and captures).  The sensor callbacks  *)
(* registered by useEffect close over the values of the render whose       *)
(* effect registered them (eff); React re-runs the effect after a change   *)
(* of a dependency, in a later task, so a sensor event can still be        *)
(* delivered to the previous callback.                                     *)
(*                                                                         *)
(* Optional values (null / undefined in the source) are <<>>, a present    *)
(* value v is <<v>>.  Angles are whole degrees, coordinates thousandths of *)
(* a degree, storage sizes MiB, battery level percent.                     *)
(***************************************************************************)
EXTENDS Integers, Sequences, FiniteSets, Bags, TLC

VARIABLES siteName, coords, headingRef, pitchRef, seq, started, startCoords,
          distance, batteryLow, storageOk, angleBaseline, angleWarning,
          capturing, eff, srcObject, orphans, starts, captures, sessReqs,
          nCap, uploaded, sessionId, ev, fileCall

vars == <<siteName, coords, headingRef, pitchRef, seq, started, startCoords,
          distance, batteryLow, storageOk, angleBaseline, angleWarning,
          capturing, eff, srcObject, orphans, starts, captures, sessReqs,
          nCap, uploaded, sessionId, ev, fileCall>>

\* eff        the started, angleBaseline and startCoords of the render whose
\*            effect registered the sensor callbacks now in place
\* srcObject  the stream of the video element: "none", "live" or "stopped"
\* orphans    live streams the video element no longer refers to
\* starts     the onStart calls in flight (a bag)
\* captures   the capture clicks in flight
\* sessReqs   POST /api/sessions requests sent so far
\* nCap       capture clicks accepted so far
\* uploaded   POST /api/photos requests that resolved so far
\* sessionId  the session_id returned to the start that made the controller
\*            active (the source keeps it in no variable)
\* ev         what the last step showed of a start: the operator's tap and
\*            the dialogs, or how the start's session request settled; of a
\*            storage estimate the quota and usage it returned (MiB);
\*            <<>> when it had none of these
\* fileCall   a call of formatFilename looked at on its own: its arguments
\*            and the name it returned; Null where the component runs

----------------------------------------------------------------------------
(* Bounds of the model *)

MaxStarts == 2        \* onStart calls in flight at once
MaxCaptures == 2      \* accepted capture triggers in a behaviour
MaxSessions == 3      \* POST /api/sessions requests in a behaviour
MaxOrphans == 1       \* live streams no longer referenced by the video

----------------------------------------------------------------------------
(* Values *)

Null == <<>>
Some(v) == <<v>>
Val(o) == o[1]

\* a number as JavaScript arithmetic coerces it: null is 0
ToNumber(o) == IF o = Null THEN 0 ELSE Val(o)

Abs(x) == IF x < 0 THEN 0 - x ELSE x

AngleTolerance == 5
BatteryLowPercent == 15
MinFreeMiB == 100
DeciMetersPerMilliDegree == 1112

SiteNames == {"", "T1"}
Samples == {[beta |-> Null, alpha |-> Null],
            [beta |-> Some(0), alpha |-> Some(90)],
            [beta |-> Some(10), alpha |-> Null]}
Positions == {[latitude |-> 41000, longitude |-> 29000],
              [latitude |-> 41001, longitude |-> 29000]}
BatteryLevels == {10, 15, 50}
StorageSizes == {0, 1, 101, 102}
CameraOutcomes == {"ok", "denied", "playFailed"}
SessionOutcomes == {"id", "noId", "error"}

\* great-circle distance, in decimetres, of two positions on one meridian
\* (dLon = 0, where the haversine formula reduces to R * |dLat|)
distanceMeters(a, b) ==
    IF a = Null \/ b = Null THEN 0
    ELSE DeciMetersPerMilliDegree * Abs(Val(b).latitude - Val(a).latitude)

----------------------------------------------------------------------------
(* Initial state: the component after its first render and effect *)

Init ==
    /\ siteName = ""
    /\ coords = Null
    /\ headingRef = Null
    /\ pitchRef = Null
    /\ seq = 0
    /\ started = FALSE
    /\ startCoords = Null
    /\ distance = 0
    /\ batteryLow = FALSE
    /\ storageOk = TRUE
    /\ angleBaseline = Null
    /\ angleWarning = FALSE
    /\ capturing = FALSE
    /\ eff = [started |-> FALSE, angleBaseline |-> Null, startCoords |-> Null]
    /\ srcObject = "none"
    /\ orphans = 0
    /\ starts = EmptyBag
    /\ captures = {}
    /\ sessReqs = 0
    /\ nCap = 0
    /\ uploaded = 0
    /\ sessionId = Null
    /\ ev = <<>>
    /\ fileCall = Null

\* the component once the operator has typed the site name and the first
\* position has arrived (and the effect has run again)
P1 == [latitude |-> 41000, longitude |-> 29000]

InitReady ==
    /\ siteName = "T1"
    /\ coords = Some(P1)
    /\ headingRef = Null
    /\ pitchRef = Null
    /\ seq = 0
    /\ started = FALSE
    /\ startCoords = Some(P1)
    /\ distance = 0
    /\ batteryLow = FALSE
    /\ storageOk = TRUE
    /\ angleBaseline = Null
    /\ angleWarning = FALSE
    /\ capturing = FALSE
    /\ eff = [started |-> FALSE, angleBaseline |-> Null,
              startCoords |-> Some(P1)]
    /\ srcObject = "none"
    /\ orphans = 0
    /\ starts = EmptyBag
    /\ captures = {}
    /\ sessReqs = 0
    /\ nCap = 0
    /\ uploaded = 0
    /\ sessionId = Null
    /\ ev = <<>>
    /\ fileCall = Null

----------------------------------------------------------------------------
(* Operator inputs and sensor callbacks *)

\* onChange of the site name input
SetSiteName(n) ==
    /\ n # siteName
    /\ siteName' = n
    /\ ev' = <<>>
    /\ UNCHANGED <<coords, headingRef, pitchRef, seq, started, startCoords,
                   distance, batteryLow, storageOk, angleBaseline,
                   angleWarning, capturing, eff, srcObject, orphans, starts,
                   captures, sessReqs, nCap, uploaded, sessionId,
                   fileCall>>

\* a variant that measures from the previous position
DistanceOriginPrevious == coords

\* the startCoords of distanceMeters(startCoords, ...) in the callback: the
\* one the registering render saw
DistanceOrigin == eff.startCoords

\* watchPosition success callback; startCoords is the one the registering
\* render saw
PositionUpdate(p) ==
    /\ coords' = Some(p)
    /\ startCoords' = IF eff.startCoords = Null THEN Some(p) ELSE startCoords
    /\ distance' = IF eff.startCoords # Null
                   THEN distanceMeters(DistanceOrigin, Some(p))
                   ELSE distance
    /\ ev' = <<>>
    /\ UNCHANGED <<siteName, headingRef, pitchRef, seq, started, batteryLow,
                   storageOk, angleBaseline, angleWarning, capturing, eff,
                   srcObject, orphans, starts, captures, sessReqs, nCap, uploaded,
                   sessionId,
                   fileCall>>

\* battery check(), at subscription and on every levelchange
BatteryCheck(level) ==
    /\ batteryLow' = (level <= BatteryLowPercent)
    /\ ev' = <<>>
    /\ UNCHANGED <<siteName, coords, headingRef, pitchRef, seq, started,
                   startCoords, distance, storageOk, angleBaseline,
                   angleWarning, capturing, eff, srcObject, orphans, starts,
                   captures, sessReqs, nCap, uploaded, sessionId,
                   fileCall>>

\* navigator.storage.estimate() resolved with quota and usage; a zero is
\* falsy in the test quota && usage
StorageEstimate(quota, usage) ==
    /\ usage <= quota
    /\ storageOk' = IF quota # 0 /\ usage # 0
                    THEN (quota - usage > MinFreeMiB)
                    ELSE storageOk
    /\ ev' = <<"estimate", quota, usage>>
    /\ UNCHANGED <<siteName, coords, headingRef, pitchRef, seq, started,
                   startCoords, distance, batteryLow, angleBaseline,
                   angleWarning, capturing, eff, srcObject, orphans, starts,
                   captures, sessReqs, nCap, uploaded, sessionId,
                   fileCall>>

\* a variant that drops Math.abs
AngleExceedsSigned(pitch, baseline) ==
    ToNumber(pitch) - Val(baseline) > AngleTolerance

\* diff > 5 of handleOrient; pitch - angleBaseline coerces a null pitch to 0
AngleExceeds(pitch, baseline) ==
    Abs(ToNumber(pitch) - Val(baseline)) > AngleTolerance

\* deviceorientation listener; started and angleBaseline are the ones the
\* registering render saw
handleOrient(e) ==
    /\ headingRef' = e.alpha
    /\ pitchRef' = e.beta
    /\ angleBaseline' = IF eff.angleBaseline = Null /\ eff.started
                        THEN e.beta
                        ELSE angleBaseline
    /\ angleWarning' = IF eff.angleBaseline # Null
                       THEN AngleExceeds(e.beta, eff.angleBaseline)
                       ELSE angleWarning
    /\ ev' = <<>>
    /\ UNCHANGED <<siteName, coords, seq, started, startCoords, distance,
                   batteryLow, storageOk, capturing, eff, srcObject, orphans,
                   starts, captures, sessReqs, nCap, uploaded, sessionId,
                   fileCall>>

\* useEffect with [started, angleBaseline, startCoords]: after a change of
\* a dependency the cleanup removes the callbacks and the effect registers
\* new ones, closed over the current render
Deps == [started |-> started, angleBaseline |-> angleBaseline,
         startCoords |-> startCoords]

EffectRerun ==
    /\ eff # Deps
    /\ eff' = Deps
    /\ ev' = <<>>
    /\ UNCHANGED <<siteName, coords, headingRef, pitchRef, seq, started,
                   startCoords, distance, batteryLow, storageOk,
                   angleBaseline, angleWarning, capturing, srcObject, orphans,
                   starts, captures, sessReqs, nCap, uploaded, sessionId,
                   fileCall>>

----------------------------------------------------------------------------
(* Start and stop *)

One(r) == SetToBag({r})

\* onStart calls in flight that have not yet reached createSession
CameraPending ==
    BagCardinality(starts) -
    Cardinality({r \in BagToSet(starts) : r.pc = "session"})

\* POST /api/sessions requests that the calls in flight can still send
CanRequestSession == sessReqs + CameraPending < MaxSessions

\* a variant without the storage check
StartRefusedStorageNever == FALSE

\* if (!storageOk) of onStart
StartRefusedStorage == ~storageOk

\* a variant without the battery check
StartNeedsConfirmNever == FALSE

\* if (batteryLow) of onStart: confirm() is asked
StartNeedsConfirm == batteryLow

\* createSession's test before the request
SessionInputsMissing(site, pos) == site = "" \/ pos = Null

\* onStart up to its first await: the storage and battery checks, then
\* startCamera() calls getUserMedia.  The call keeps the siteName and coords
\* of the render it was clicked in, which createSession tests later.
OnStartClick(confirmed) ==
    /\ ~capturing
    /\ IF StartRefusedStorage
       THEN /\ ev' = <<"tap:start", "alert:storage">>
            /\ UNCHANGED starts
       ELSE IF StartNeedsConfirm /\ ~confirmed
       THEN /\ ev' = <<"tap:start", "confirm:no">>
            /\ UNCHANGED starts
       ELSE /\ BagCardinality(starts) < MaxStarts
            /\ CanRequestSession
            /\ starts' = starts (+)
                  One([pc |-> "camera",
                       missing |-> SessionInputsMissing(siteName, coords)])
            /\ ev' = IF StartNeedsConfirm
                     THEN <<"tap:start", "confirm:yes">>
                     ELSE <<"tap:start">>
    /\ UNCHANGED <<siteName, coords, headingRef, pitchRef, seq, started,
                   startCoords, distance, batteryLow, storageOk,
                   angleBaseline, angleWarning, capturing, eff, srcObject,
                   orphans, captures, sessReqs, nCap, uploaded, sessionId,
                   fileCall>>

\* startCamera settles and onStart goes on to createSession.  getUserMedia
\* resolves ("ok"), rejects ("denied"), or a later await of startCamera
\* rejects after the stream was assigned to the video ("playFailed"); the
\* catch block alerts and startCamera returns normally in every case.
StartCameraDone(r, outcome) ==
    /\ BagIn(r, starts)
    /\ r.pc = "camera"
    /\ IF outcome = "denied"
       THEN UNCHANGED <<srcObject, orphans>>
       ELSE /\ srcObject = "live" => orphans < MaxOrphans
            /\ srcObject' = "live"
            /\ orphans' = IF srcObject = "live" THEN orphans + 1 ELSE orphans
    /\ IF r.missing
       THEN /\ starts' = starts (-) One(r)
            /\ UNCHANGED sessReqs
       ELSE /\ sessReqs' = sessReqs + 1
            /\ starts' = (starts (-) One(r)) (+)
                            One([pc |-> "session", req |-> sessReqs + 1])
    /\ ev' = (IF outcome = "ok" THEN <<>> ELSE <<"alert:camera">>) \o
             (IF r.missing THEN <<"alert:inputs">> ELSE <<>>)
    /\ UNCHANGED <<siteName, coords, headingRef, pitchRef, seq, started,
                   startCoords, distance, batteryLow, storageOk,
                   angleBaseline, angleWarning, capturing, eff, captures,
                   nCap, uploaded, sessionId,
                   fileCall>>

\* a variant without the test of sid
SessionAcceptedAny(outcome) == outcome # "error"

\* if (!sid) return, reached only when createSession returned
SessionAccepted(outcome) == outcome = "id"

\* the session request of onStart settles: a response with a session_id
\* ("id"), a response without one ("noId"), or fetch / res.json() rejects
\* ("error") and onStart ends with the exception.  The backend issues one
\* id per request.
StartSessionDone(r, outcome) ==
    /\ BagIn(r, starts)
    /\ r.pc = "session"
    /\ starts' = starts (-) One(r)
    /\ IF SessionAccepted(outcome)
       THEN /\ started' = TRUE
            /\ capturing' = TRUE
            /\ sessionId' = IF outcome = "id" THEN Some(r.req) ELSE Null
       ELSE UNCHANGED <<started, capturing, sessionId>>
    /\ ev' = <<"session:" \o outcome>>
    /\ UNCHANGED <<siteName, coords, headingRef, pitchRef, seq, startCoords,
                   distance, batteryLow, storageOk, angleBaseline,
                   angleWarning, eff, srcObject, orphans, captures, sessReqs,
                   nCap, uploaded,
                   fileCall>>

\* a variant that starts the numbering again at every stop
onStopResetsSeq ==
    /\ capturing
    /\ srcObject' = IF srcObject = "none" THEN "none" ELSE "stopped"
    /\ capturing' = FALSE
    /\ started' = FALSE
    /\ sessionId' = Null
    /\ seq' = 0
    /\ ev' = <<"tap:stop">>
    /\ UNCHANGED <<siteName, coords, headingRef, pitchRef, startCoords,
                   distance, batteryLow, storageOk, angleBaseline,
                   angleWarning, eff, orphans, starts, captures, sessReqs,
                   nCap, uploaded,
                   fileCall>>

\* onStop: stops the tracks of the stream the video element refers to
onStop ==
    /\ capturing
    /\ srcObject' = IF srcObject = "none" THEN "none" ELSE "stopped"
    /\ capturing' = FALSE
    /\ started' = FALSE
    /\ sessionId' = Null
    /\ ev' = <<"tap:stop">>
    /\ UNCHANGED <<siteName, coords, headingRef, pitchRef, seq, startCoords,
                   distance, batteryLow, storageOk, angleBaseline,
                   angleWarning, eff, orphans, starts, captures, sessReqs,
                   nCap, uploaded,
                   fileCall>>

----------------------------------------------------------------------------
(* Capture *)

\* a variant without disabled={angleWarning}
CaptureEnabledUngated == capturing

\* a variant that takes one capture at a time
CaptureEnabledSerial == capturing /\ ~angleWarning /\ captures = {}

\* the Foto Cek button is rendered while capturing, disabled={angleWarning}
CaptureEnabled == capturing /\ ~angleWarning

\* seq + 1 of captureAndUpload, with the seq of the render of the click
SeqOfCapture(c) == c.seq + 1

\* a variant that counts the photo whether or not the fetch resolved
SeqAfterUploadAlways(s, resolved) == s + 1

\* await fetch(...); setSeq((s) => s + 1): the updater runs on the current
\* seq, and only when the fetch resolved
SeqAfterUpload(s, resolved) == IF resolved THEN s + 1 ELSE s

\* the click handler up to its first await: createSession() either alerts
\* and returns undefined or sends the request.  The call keeps the seq,
\* coords, pitchRef and headingRef of the render it was clicked in.
CaptureClick ==
    /\ CaptureEnabled
    /\ nCap < MaxCaptures
    /\ nCap' = nCap + 1
    /\ LET c == [sess |-> sessionId, seq |-> seq, coords |-> coords,
                 pitchRef |-> pitchRef, headingRef |-> headingRef]
       IN IF SessionInputsMissing(siteName, coords)
          THEN /\ captures' = captures \cup
                     {[id |-> nCap + 1, pc |-> "blob", sid |-> Null, c |-> c]}
               /\ UNCHANGED sessReqs
          ELSE /\ CanRequestSession
               /\ sessReqs' = sessReqs + 1
               /\ captures' = captures \cup
                     {[id |-> nCap + 1, pc |-> "session",
                       req |-> sessReqs + 1, c |-> c]}
    /\ ev' = <<"tap:capture">> \o
             (IF SessionInputsMissing(siteName, coords)
              THEN <<"alert:inputs">> ELSE <<>>)
    /\ UNCHANGED <<siteName, coords, headingRef, pitchRef, seq, started,
                   startCoords, distance, batteryLow, storageOk,
                   angleBaseline, angleWarning, capturing, eff, srcObject,
                   orphans, starts, uploaded, sessionId,
                   fileCall>>

\* a tap on the button while it is rendered disabled: no click event
CaptureTapDisabled ==
    /\ capturing
    /\ ~CaptureEnabled
    /\ ev' = <<"tap:disabled">>
    /\ UNCHANGED <<siteName, coords, headingRef, pitchRef, seq, started,
                   startCoords, distance, batteryLow, storageOk,
                   angleBaseline, angleWarning, capturing, eff, srcObject,
                   orphans, starts, captures, sessReqs, nCap, uploaded, sessionId,
                   fileCall>>

\* the session request of a capture settles; with "error" the click handler
\* ends with the exception and captureAndUpload is not called.  Otherwise
\* captureAndUpload draws the frame and awaits canvas.toBlob.
CaptureSessionDone(k, outcome) ==
    /\ k \in captures
    /\ k.pc = "session"
    /\ captures' = (captures \ {k}) \cup
          (IF outcome = "error" THEN {}
           ELSE {[id |-> k.id, pc |-> "blob",
                  sid |-> IF outcome = "id" THEN Some(k.req) ELSE Null,
                  c |-> k.c]})
    /\ ev' = <<>>
    /\ UNCHANGED <<siteName, coords, headingRef, pitchRef, seq, started,
                   startCoords, distance, batteryLow, storageOk,
                   angleBaseline, angleWarning, capturing, eff, srcObject,
                   orphans, starts, sessReqs, nCap, uploaded, sessionId,
                   fileCall>>

\* the multipart body of POST /api/photos; tilt_deg and heading_deg are
\* appended only when not null
PhotoForm(sid, c) ==
    [session_id |-> sid, seq |-> SeqOfCapture(c),
     lat |-> Val(c.coords).latitude, lng |-> Val(c.coords).longitude,
     tilt_deg |-> c.pitchRef, heading_deg |-> c.headingRef]

\* toBlob resolves: the form is built and the photo request is sent; reading
\* current.latitude of a null coords throws
CaptureBlobDone(k) ==
    /\ k \in captures
    /\ k.pc = "blob"
    /\ captures' = (captures \ {k}) \cup
          (IF k.c.coords = Null THEN {}
           ELSE {[id |-> k.id, pc |-> "upload", sess |-> k.c.sess,
                  form |-> PhotoForm(k.sid, k.c)]})
    /\ ev' = <<>>
    /\ UNCHANGED <<siteName, coords, headingRef, pitchRef, seq, started,
                   startCoords, distance, batteryLow, storageOk,
                   angleBaseline, angleWarning, capturing, eff, srcObject,
                   orphans, starts, sessReqs, nCap, uploaded, sessionId,
                   fileCall>>

\* the photo request settles: fetch resolves (any HTTP status) and setSeq
\* runs, or fetch rejects and captureAndUpload ends with the exception
CaptureUploadDone(k, resolved) ==
    /\ k \in captures
    /\ k.pc = "upload"
    /\ captures' = captures \ {k}
    /\ seq' = SeqAfterUpload(seq, resolved)
    /\ uploaded' = IF resolved THEN uploaded + 1 ELSE uploaded
    /\ ev' = <<>>
    /\ UNCHANGED <<siteName, coords, headingRef, pitchRef, started,
                   startCoords, distance, batteryLow, storageOk,
                   angleBaseline, angleWarning, capturing, eff, srcObject,
                   orphans, starts, sessReqs, nCap, sessionId,
                   fileCall>>

----------------------------------------------------------------------------
(* Specification *)

Next ==
    \/ \E n \in SiteNames : SetSiteName(n)
    \/ \E p \in Positions : PositionUpdate(p)
    \/ \E l \in BatteryLevels : BatteryCheck(l)
    \/ \E q \in StorageSizes, u \in StorageSizes : StorageEstimate(q, u)
    \/ \E e \in Samples : handleOrient(e)
    \/ EffectRerun
    \/ \E b \in BOOLEAN : OnStartClick(b)
    \/ \E r \in BagToSet(starts), o \in CameraOutcomes : StartCameraDone(r, o)
    \/ \E r \in BagToSet(starts), o \in SessionOutcomes :
          StartSessionDone(r, o)
    \/ onStop
    \/ CaptureClick
    \/ CaptureTapDisabled
    \/ \E k \in captures, o \in SessionOutcomes : CaptureSessionDone(k, o)
    \/ \E k \in captures : CaptureBlobDone(k)
    \/ \E k \in captures, r \in BOOLEAN : CaptureUploadDone(k, r)

Spec == Init /\ [][Next]_vars

\* A session on a device whose site name and position are in place and stay:
\* orientation events, start, stop and capture, with every outcome of the
\* camera and of the backend.
NextSession ==
    \/ \E e \in Samples : handleOrient(e)
    \/ EffectRerun
    \/ \E b \in BOOLEAN : OnStartClick(b)
    \/ \E r \in BagToSet(starts), o \in CameraOutcomes : StartCameraDone(r, o)
    \/ \E r \in BagToSet(starts), o \in SessionOutcomes :
          StartSessionDone(r, o)
    \/ onStop
    \/ CaptureClick
    \/ CaptureTapDisabled
    \/ \E k \in captures, o \in SessionOutcomes : CaptureSessionDone(k, o)
    \/ \E k \in captures : CaptureBlobDone(k)
    \/ \E k \in captures, r \in BOOLEAN : CaptureUploadDone(k, r)

SpecSession == InitReady /\ [][NextSession]_vars

\* Start and stop from the first render on: site name, position, battery and
\* storage events, with every outcome of the camera and of the backend.
NextStart ==
    \/ \E n \in SiteNames : SetSiteName(n)
    \/ \E p \in {P1} : PositionUpdate(p)
    \/ \E l \in BatteryLevels : BatteryCheck(l)
    \/ \E q \in StorageSizes, u \in StorageSizes : StorageEstimate(q, u)
    \/ EffectRerun
    \/ \E b \in BOOLEAN : OnStartClick(b)
    \/ \E r \in BagToSet(starts), o \in CameraOutcomes : StartCameraDone(r, o)
    \/ \E r \in BagToSet(starts), o \in SessionOutcomes :
          StartSessionDone(r, o)
    \/ onStop

SpecStart == Init /\ [][NextStart]_vars

----------------------------------------------------------------------------
(* formatFilename *)

\* Strings are sequences of characters.  The class [a-zA-Z0-9_-]:
AllowedChars ==
    {"a", "b", "c", "d", "e", "f", "g", "h", "i", "j", "k", "l", "m",
     "n", "o", "p", "q", "r", "s", "t", "u", "v", "w", "x", "y", "z",
     "A", "B", "C", "D", "E", "F", "G", "H", "I", "J", "K", "L", "M",
     "N", "O", "P", "Q", "R", "S", "T", "U", "V", "W", "X", "Y", "Z",
     "0", "1", "2", "3", "4", "5", "6", "7", "8", "9", "_", "-"}

DigitChar(d) == <<"0", "1", "2", "3", "4", "5", "6", "7", "8", "9">>[d + 1]

\* String(n) of a non-negative integer
RECURSIVE String(_)
String(n) ==
    IF n < 10 THEN <<DigitChar(n)>>
    ELSE String(n \div 10) \o <<DigitChar(n % 10)>>

\* s.padStart(width, c)
padStart(s, width, c) ==
    IF Len(s) >= width THEN s ELSE [i \in 1..(width - Len(s)) |-> c] \o s

\* x.toFixed(6) of a coordinate given in thousandths of a degree
toFixed6(x) ==
    (IF x < 0 THEN <<"-">> ELSE <<>>) \o String(Abs(x) \div 1000) \o <<".">>
        \o padStart(String(Abs(x) % 1000), 3, "0") \o <<"0", "0", "0">>

\* a variant without the g flag: only the first match is replaced
safeSiteFirstOnly(siteNameArg) ==
    [i \in 1..Len(siteNameArg) |->
        IF /\ siteNameArg[i] \notin AllowedChars
           /\ \A j \in 1..(i - 1) : siteNameArg[j] \in AllowedChars
        THEN "_" ELSE siteNameArg[i]]

\* siteName.replace(/[^a-zA-Z0-9_-]/g, '_')
safeSite(siteNameArg) ==
    [i \in 1..Len(siteNameArg) |->
        IF siteNameArg[i] \in AllowedChars THEN siteNameArg[i] ELSE "_"]

formatFilename(a) ==
    safeSite(a.siteName) \o <<"_">> \o a.date \o <<"_">>
        \o padStart(String(a.seq), 3, "0") \o <<"_">>
        \o toFixed6(a.lat) \o <<"_">> \o toFixed6(a.lng)
        \o <<".", "j", "p", "g">>

\* the arguments tried: site names up to MaxSiteLen characters over
\* SiteChars and 'Trench Alpha!', one date, sequence numbers of one to four
\* digits, the two positions
MaxSiteLen == 2
SiteChars == {"a", "Z", "5", "_", "-", " ", "!"}
TrenchAlpha ==
    <<"T", "r", "e", "n", "c", "h", " ", "A", "l", "p", "h", "a", "!">>
Date20240501 == <<"2", "0", "2", "4", "-", "0", "5", "-", "0", "1">>
FileSeqs == {0, 1, 12, 999, 1000}
FileArgs ==
    [siteName : UNION {[1..n -> SiteChars] : n \in 0..MaxSiteLen}
                    \cup {TrenchAlpha},
     date : {Date20240501},
     seq : FileSeqs,
     lat : {p.latitude : p \in Positions},
     lng : {p.longitude : p \in Positions}]

InitFile ==
    /\ siteName = ""
    /\ coords = Null
    /\ headingRef = Null
    /\ pitchRef = Null
    /\ seq = 0
    /\ started = FALSE
    /\ startCoords = Null
    /\ distance = 0
    /\ batteryLow = FALSE
    /\ storageOk = TRUE
    /\ angleBaseline = Null
    /\ angleWarning = FALSE
    /\ capturing = FALSE
    /\ eff = [started |-> FALSE, angleBaseline |-> Null, startCoords |-> Null]
    /\ srcObject = "none"
    /\ orphans = 0
    /\ starts = EmptyBag
    /\ captures = {}
    /\ sessReqs = 0
    /\ nCap = 0
    /\ uploaded = 0
    /\ sessionId = Null
    /\ ev = <<>>
    /\ fileCall \in {[args |-> a, name |-> Null] : a \in FileArgs}

\* the call returns
FormatFilenameCall ==
    /\ fileCall # Null
    /\ fileCall.name = Null
    /\ fileCall' = [fileCall EXCEPT !.name = Some(formatFilename(fileCall.args))]
    /\ UNCHANGED <<siteName, coords, headingRef, pitchRef, seq, started,
                   startCoords, distance, batteryLow, storageOk,
                   angleBaseline, angleWarning, capturing, eff, srcObject,
                   orphans, starts, captures, sessReqs, nCap, uploaded,
                   sessionId, ev>>

NextFile == FormatFilenameCall

SpecFile == InitFile /\ [][NextFile]_vars

\* A device that moves, from the first render on: site name, both positions,
\* one orientation sample, start and stop.
NextGeo ==
    \/ \E n \in SiteNames : SetSiteName(n)
    \/ \E p \in Positions : PositionUpdate(p)
    \/ \E e \in {[beta |-> Some(0), alpha |-> Some(90)]} : handleOrient(e)
    \/ EffectRerun
    \/ \E b \in BOOLEAN : OnStartClick(b)
    \/ \E r \in BagToSet(starts), o \in CameraOutcomes : StartCameraDone(r, o)
    \/ \E r \in BagToSet(starts), o \in SessionOutcomes :
          StartSessionDone(r, o)
    \/ onStop

SpecGeo == Init /\ [][NextGeo]_vars

----------------------------------------------------------------------------
(* Properties *)

\* the last step began with t (a tap, a dialog or an outcome)
StepWas(e, t) == e # <<>> /\ e[1] = t

\* a start call in its camera stage with the inputs of the current render
NewStart == [pc |-> "camera",
             missing |-> SessionInputsMissing(siteName, coords)]

\* C1: a capture trigger is accepted only if AngleBaseline is set and the
\* current pitch deviates from it by at most 5 degrees; before the first
\* orientation sample of a session has set the baseline, capture is refused.
C1_CaptureNeedsBaseline ==
    StepWas(ev, "tap:capture") =>
        /\ angleBaseline # Null
        /\ pitchRef # Null
        /\ Abs(Val(pitchRef) - Val(angleBaseline)) <= AngleTolerance

\* C2: a capture trigger made while angleWarning is true is rejected: it
\* starts no session or photo request and leaves the sequence number alone.
C2_WarningRejectsCapture ==
    [][(angleWarning /\ (StepWas(ev', "tap:capture") \/
                         StepWas(ev', "tap:disabled")))
       => /\ sessReqs' = sessReqs
          /\ captures' = captures
          /\ nCap' = nCap
          /\ seq' = seq]_vars

C2_Witness == StepWas(ev, "tap:disabled") /\ angleWarning /\ capturing

C4_DistinctSeqPerUpload ==
    \A a, b \in captures :
        (a.pc = "upload" /\ b.pc = "upload" /\ a.sess = b.sess /\ a.id < b.id)
            => a.form.seq < b.form.seq

\* C5: in every session that becomes Active the AngleBaseline is assigned
\* exactly once, to the pitch of the first orientation sample delivered
\* after the session started: it is unset when the session starts, the
\* first sample of the session sets it, and later samples of the session
\* leave it alone.
C5_BaselineOncePerSession ==
    [][/\ (~started /\ started') => angleBaseline' = Null
       /\ (started /\ started' /\ angleBaseline = Null /\ pitchRef' # pitchRef)
             => angleBaseline' = pitchRef'
       /\ (started /\ started' /\ angleBaseline # Null)
             => angleBaseline' = angleBaseline]_vars

\* C6: angleWarning is true exactly when AngleBaseline is set and the current
\* pitch deviates from it by more than 5 degrees; it is false in every state
\* where AngleBaseline is unset.
C6_WarningIffDeviation ==
    /\ angleBaseline = Null => ~angleWarning
    /\ pitchRef # Null =>
          (angleWarning <=>
              /\ angleBaseline # Null
              /\ Abs(Val(pitchRef) - Val(angleBaseline)) > AngleTolerance)

C6_Witness ==
    /\ angleWarning
    /\ pitchRef # Null
    /\ angleBaseline # Null
    /\ Val(pitchRef) < Val(angleBaseline)

\* C7: when acquiring the media-capture device fails during a start, the
\* failure is reported, no session-creation request is sent and started and
\* capturing stay false.
C7_CameraFailureSendsNothing ==
    [][(StepWas(ev', "alert:camera") /\ srcObject' = srcObject
                                    /\ orphans' = orphans)
       => /\ sessReqs' = sessReqs
          /\ started' = started
          /\ capturing' = capturing]_vars

\* C8: when the session-creation request of a start fails or returns no
\* session id, started and capturing stay as they are, no session comes to
\* exist, and no session-creation request is sent by that step; a request is
\* only ever sent by a start call that was waiting for the camera.
C8_SessionFailureKeepsIdle ==
    [][/\ (ev' = <<"session:noId">> \/ ev' = <<"session:error">>)
          => /\ started' = started
             /\ capturing' = capturing
             /\ sessionId' = sessionId
             /\ sessReqs' = sessReqs
             /\ CameraPending' = CameraPending
       /\ (sessReqs' # sessReqs /\ captures' = captures)
          => /\ sessReqs' = sessReqs + 1
             /\ CameraPending' = CameraPending - 1]_vars

C8_Witness ==
    /\ ev = <<"session:noId">>
    /\ ~started
    /\ ~capturing
    /\ sessionId = Null
    /\ starts = EmptyBag
    /\ sessReqs = 1

\* C9: a start tapped while storageOk is false is refused: no start call
\* comes to run, so the device is not acquired, no request is sent and the
\* controller stays as it was.
C9_NoStorageRefusesStart ==
    [][(~storageOk /\ StepWas(ev', "tap:start"))
       => /\ ev' = <<"tap:start", "alert:storage">>
          /\ UNCHANGED <<starts, srcObject, orphans, sessReqs, started,
                         capturing, sessionId>>]_vars

C9_Witness == ev = <<"tap:start", "alert:storage">> /\ ~storageOk

\* C10: a start tapped while batteryLow is true (and storage is sufficient)
\* asks for confirmation; declined, no start call comes to run; confirmed,
\* the start call runs as it does with a good battery.
C10_LowBatteryNeedsConfirm ==
    [][(storageOk /\ StepWas(ev', "tap:start"))
       => /\ batteryLow <=> Len(ev') = 2
          /\ batteryLow => ev'[2] \in {"confirm:yes", "confirm:no"}
          /\ IF batteryLow /\ ev'[2] = "confirm:no"
             THEN starts' = starts
             ELSE starts' = starts (+) One(NewStart)
          /\ UNCHANGED <<srcObject, orphans, sessReqs, started, capturing,
                         sessionId>>]_vars

C10_Witness == ev = <<"tap:start", "confirm:no">> /\ batteryLow /\ storageOk

\* C11: once SessionAnchor (startCoords) has been set, no later step changes
\* it: no location update, also one delivered to the callback registered
\* before the anchor was set, no effect re-subscription, orientation event,
\* start, capture or stop.
C11_AnchorImmutable ==
    [][startCoords # Null => startCoords' = startCoords]_vars

\* C17: the displayed distance is the distance between SessionAnchor and the
\* most recent coordinate after every location update following the first,
\* and 0 after only the first update (anchor and coordinate coincide) and
\* before any.
C17_DistanceFromAnchor == distance = distanceMeters(startCoords, coords)

\* a later update at another position than the anchor has been displayed
C17_Witness ==
    /\ startCoords # Null
    /\ coords # startCoords
    /\ distance = DeciMetersPerMilliDegree

\* live camera streams: the one the video element shows and the ones it no
\* longer refers to
LiveHandles == orphans + (IF srcObject = "live" THEN 1 ELSE 0)

\* C12: the controller never holds more than one live device handle, and
\* holds none while it is Idle or Stopped (not capturing, no start in
\* progress): every handle a start acquired is released by the stop.
C12_HandleReleasedByStop ==
    /\ LiveHandles <= 1
    /\ (~capturing /\ starts = EmptyBag) => LiveHandles = 0

\* C14: after a storage estimate returned quota and usage, storageOk is true
\* exactly when quota - usage exceeds 100 MiB, a usage of 0 included.
C14_StorageOkIffFree ==
    (StepWas(ev, "estimate") /\ ev[2] > 0)
        => (storageOk <=> ev[2] - ev[3] > MinFreeMiB)

\* C20: while a start is in progress no second start is accepted: at most
\* one onStart call, so at most one device acquisition and one session
\* request of a start, is outstanding at any time.
C20_OneStartAtATime == BagCardinality(starts) <= 1

\* C13: sequenceNumber starts at 0; every step leaves it as it is or adds
\* exactly 1, and it adds 1 only when the upload of a capture in flight
\* settles: never on a start, stop, restart or sensor event.
C13_SeqOnlyCountsCaptures ==
    /\ seq = 0
    /\ [][\/ seq' = seq
          \/ /\ seq' = seq + 1
             /\ \E k \in captures : k.pc = "upload" /\ k \notin captures'
         ]_vars

\* a stop after a counted photo: the number is kept
C13_Witness == seq = 1 /\ StepWas(ev, "tap:stop")

\* the model's own limits on a further capture click
CaptureWithinBounds == nCap < MaxCaptures /\ CanRequestSession

\* C16: while a capture is in flight the stop button works and so does the
\* capture button (unless the angle warning disables it); a stop leaves the
\* captures in flight as they are, and an upload in flight can settle
\* whether or not the session is still active.
C16_InFlightBlocksNothing ==
    /\ [](captures # {} /\ capturing
            => /\ ENABLED onStop
               /\ (~angleWarning /\ CaptureWithinBounds)
                     => ENABLED CaptureClick)
    /\ [](\A k \in captures :
            k.pc = "upload" => ENABLED CaptureUploadDone(k, TRUE))
    /\ [][StepWas(ev', "tap:stop") => captures' = captures]_vars

\* a stop that took effect with an upload in flight
C16_Witness ==
    /\ StepWas(ev, "tap:stop")
    /\ ~capturing
    /\ \E k \in captures : k.pc = "upload"

\* C18: a step that leaves the pitch unknown (an orientation sample with a
\* null beta) computes no deviation: it does not change angleWarning.
C18_NullSampleIsUnknown ==
    [][pitchRef' = Null => angleWarning' = angleWarning]_vars

\* C19: a capture click sends no session request, and every photo request
\* carries the session id returned to the start of the session it was
\* clicked in.
C19_OneSessionPerStart ==
    /\ [][StepWas(ev', "tap:capture") => sessReqs' = sessReqs]_vars
    /\ [](\A k \in captures :
            k.pc = "upload" => /\ k.sess # Null
                               /\ k.form.session_id = k.sess)

\* the number a string of digits denotes
RECURSIVE NumberOf(_)
NumberOf(s) ==
    IF s = <<>> THEN 0
    ELSE 10 * NumberOf(SubSeq(s, 1, Len(s) - 1))
            + (CHOOSE d \in 0..9 : DigitChar(d) = s[Len(s)])

\* C15: in the name formatFilename returns, the site segment has the length
\* of siteName, with every character outside [A-Za-z0-9_-] replaced by '_'
\* and every other character kept; after '_', the date and '_' comes seq in
\* decimal, zero-padded to 3 digits and at its natural width from 1000 on,
\* followed by '_'; site 'Trench Alpha!' with seq 1 gives a name that starts
\* 'Trench_Alpha__2024-05-01_001_'.
C15_FilenameSegments ==
    (fileCall # Null /\ fileCall.name # Null) =>
        LET a == fileCall.args
            n == Val(fileCall.name)
            L == Len(a.siteName)
            D == Len(a.date)
            W == IF a.seq >= 1000 THEN Len(String(a.seq)) ELSE 3
            seg == SubSeq(n, L + D + 3, L + D + 2 + W)
        IN /\ \A i \in 1..L :
                 /\ a.siteName[i] \in AllowedChars => n[i] = a.siteName[i]
                 /\ a.siteName[i] \notin AllowedChars => n[i] = "_"
           /\ n[L + 1] = "_"
           /\ SubSeq(n, L + 2, L + D + 1) = a.date
           /\ n[L + D + 2] = "_"
           /\ \A i \in 1..W : seg[i] \in {DigitChar(d) : d \in 0..9}
           /\ NumberOf(seg) = a.seq
           /\ n[L + D + 3 + W] = "_"
           /\ (a.siteName = TrenchAlpha /\ a.seq = 1)
                => SubSeq(n, 1, 29) =
                     <<"T", "r", "e", "n", "c", "h", "_", "A", "l", "p", "h",
                       "a", "_", "_", "2", "0", "2", "4", "-", "0", "5", "-",
                       "0", "1", "_", "0", "0", "1", "_">>

\* the call for site 'Trench Alpha!' and seq 1 has returned
C15_Witness ==
    /\ fileCall # Null
    /\ fileCall.name # Null
    /\ fileCall.args.siteName = TrenchAlpha
    /\ fileCall.args.seq = 1

====
